---- MODULE Spec2Model ----
(***************************************************************************)
(* Model of functions/src/index.ts: the Firestore-triggered handler        *)
(* sendPushOnNewNotification (list the user's deviceTokens, build the      *)
(* multicast message, send it, classify the positional responses, delete   *)
(* the permanently dead tokens in one write batch), run by several         *)
(* concurrent invocations over a shared registration store, and the two    *)
(* handlers createNotificationOnNewLike and createNotificationOnNewComment *)
(* that add the notification documents it is triggered by.                 *)
(***************************************************************************)
EXTENDS Integers, Sequences, FiniteSets, TLC

\* ------------------------------------------------------------------ bounds
\* Number of distinct device-token strings that exist.
NumTokens == 2

TokenNames == <<"tA", "tB", "tC", "tD">>
Tokens == {TokenNames[i] : i \in 1..NumTokens}

Users == {"u1", "u2"}

\* Number of deviceTokens documents in the whole store.
MaxRegistrations == 2

\* Concurrent invocations of the handler.
Dispatches == {"d1", "d2"}

NotifIds == {"n1", "n2"}

\* ------------------------------------------------------- program constants
InvalidRegistrationToken == "messaging/invalid-registration-token"
RegistrationTokenNotRegistered == "messaging/registration-token-not-registered"

\* A code of the transport's vocabulary that the handler does not name.
OtherErrorCode == "messaging/internal-error"

\* SendResponse values of sendEachForMulticast: success, or a failure that
\* carries an error with a code, or a failure that carries no error object.
SendResponses ==
    { [success |-> TRUE] }
    \cup { [success |-> FALSE, error |-> [code |-> c]] :
              c \in {InvalidRegistrationToken, RegistrationTokenNotRegistered, OtherErrorCode} }
    \cup { [success |-> FALSE] }

\* ----------------------------------------------------------- data model
\* users/{u}/deviceTokens/{id}: a document with a token field.  The document
\* id of a token is its index in TokenNames.
DocOf(t) == [id |-> CHOOSE i \in 1..Len(TokenNames) : TokenNames[i] = t, token |-> t]
AllDocs == {DocOf(t) : t \in Tokens}

\* users/{u}/notifications/{n}: the Notification documents that exist when
\* the dispatcher is studied on its own (interface Notification; the optional
\* fields may be missing).
SeedNotification(n) ==
    IF n = "n1"
    THEN [type |-> "LIKE", args |-> <<"Ana", "My Post">>,
          targetRoute |-> "blog_post_detail/b1", targetId |-> "b1", status |-> "NEW"]
    ELSE [type |-> "COMMENT", args |-> <<"Luis">>, status |-> "NEW"]

\* The types the helpers know and one they do not; the two args they read.
TypeValues == <<"LIKE", "COMMENT", "FOLLOW">>
ArgValues == <<"Ana", "My Post">>

\* a document with the field k, or without it
OptField(k, present, v) == IF present THEN [x \in {k} |-> v] ELSE [x \in {} |-> v]

\* Notification documents a client or a producer may have written: the
\* type may be missing or one the helpers do not know, args may be missing
\* or shorter than the helpers read, targetRoute may be missing, alone or
\* together with targetId.
PayloadRecords ==
    { [status |-> "NEW"]
        @@ OptField("type", t > 0, TypeValues[IF t > 0 THEN t ELSE 1])
        @@ OptField("args", a >= 0, SubSeq(ArgValues, 1, a))
        @@ OptField("targetRoute", ri[1], "blog_post_detail/b1")
        @@ OptField("targetId", ri[2], "b1") :
      t \in 0..Len(TypeValues), a \in (0 - 1)..Len(ArgValues),
      ri \in {p \in BOOLEAN \X BOOLEAN : p[1] => p[2]} }

\* rec.f ?? dflt
OrElse(rec, f, dflt) == IF f \in DOMAIN rec THEN rec[f] ELSE dflt

\* variant: the ?? default is missing, the template prints undefined
ArgOrUndefined(notification, i, dflt) ==
    IF "args" \in DOMAIN notification /\ i + 1 \in DOMAIN notification.args
    THEN notification.args[i + 1]
    ELSE "undefined"

\* notification.args?.[i] ?? dflt   (i is 0-based as in the source)
ArgOrElse(notification, i, dflt) ==
    IF "args" \in DOMAIN notification /\ i + 1 \in DOMAIN notification.args
    THEN notification.args[i + 1]
    ELSE dflt

buildTitle(notification) ==
    CASE OrElse(notification, "type", "") = "LIKE" ->
             ArgOrElse(notification, 0, "Alguien") \o " le dio like a tu publicación"
      [] OrElse(notification, "type", "") = "COMMENT" ->
             ArgOrElse(notification, 0, "Alguien") \o " comentó en tu publicación"
      [] OTHER -> "Tienes una nueva notificación"

buildBody(notification) ==
    CASE OrElse(notification, "type", "") = "LIKE" ->
             "Publicación: " \o ArgOrElse(notification, 1, "")
      [] OrElse(notification, "type", "") = "COMMENT" ->
             ArgOrElse(notification, 1, "")
      [] OTHER -> ""

\* tokensSnapshot.docs: the documents of a collection in document-id order.
RECURSIVE SnapshotDocs(_)
SnapshotDocs(docs) ==
    IF docs = {} THEN <<>>
    ELSE LET first == CHOOSE x \in docs : \A y \in docs : x.id <= y.id
         IN  <<first>> \o SnapshotDocs(docs \ {first})

\* variant: the emptiness test is missing
SnapshotEmptyNever(docs) == FALSE

\* tokensSnapshot.empty
SnapshotEmpty(docs) == Len(docs) = 0

\* variant: the map loses the last document
TokensOfDropLast(snapshot) ==
    [i \in 1..(IF Len(snapshot) > 1 THEN Len(snapshot) - 1 ELSE Len(snapshot)) |-> snapshot[i].token]

\* tokensSnapshot.docs.map((doc) => doc.data().token)
TokensOf(snapshot) == [i \in 1..Len(snapshot) |-> snapshot[i].token]

\* the MulticastMessage literal
BuildMessage(notification, notificationId, tokens) ==
    [notification |-> [title |-> buildTitle(notification), body |-> buildBody(notification)],
     data |-> [targetRoute |-> OrElse(notification, "targetRoute", ""),
               targetId |-> OrElse(notification, "targetId", ""),
               type |-> OrElse(notification, "type", ""),
               notificationId |-> notificationId],
     tokens |-> tokens]

\* response.responses.filter((r) => r.success).length
successCount(rs) == Cardinality({i \in DOMAIN rs : rs[i].success})

\* response.responses.filter((r) => !r.success).length
failureCount(rs) == Cardinality({i \in DOMAIN rs : ~rs[i].success})

\* variant: only the first of the two codes is tested
IsInvalidTokenOneCode(res) ==
    /\ ~res.success
    /\ "error" \in DOMAIN res
    /\ res.error.code = "messaging/invalid-registration-token"

\* variant: every failed response marks its token as invalid
IsInvalidTokenAnyFailure(res) == ~res.success

\* the condition under which the forEach pushes tokens[idx]
IsInvalidToken(res) ==
    /\ ~res.success
    /\ "error" \in DOMAIN res
    /\ \/ res.error.code = InvalidRegistrationToken
       \/ res.error.code = RegistrationTokenNotRegistered

\* variant: the loop pushes the first token instead of tokens[idx]
RECURSIVE CollectInvalidFirst(_, _, _)
CollectInvalidFirst(responses, tokens, idx) ==
    IF idx > Len(responses) THEN <<>>
    ELSE (IF IsInvalidToken(responses[idx]) THEN <<tokens[1]>> ELSE <<>>)
         \o CollectInvalidFirst(responses, tokens, idx + 1)

\* response.responses.forEach((res, idx) => ... tokensToDelete.push(tokens[idx]))
RECURSIVE CollectInvalid(_, _, _)
CollectInvalid(responses, tokens, idx) ==
    IF idx > Len(responses) THEN <<>>
    ELSE (IF IsInvalidToken(responses[idx]) THEN <<tokens[idx]>> ELSE <<>>)
         \o CollectInvalid(responses, tokens, idx + 1)

\* variant: the where clause is missing
QueryRefsAll(docs, userId, badToken) ==
    {[user |-> userId, id |-> doc.id] : doc \in docs}

\* .collection("deviceTokens").where("token", "==", badToken).get() as refs
QueryRefs(docs, userId, badToken) ==
    {[user |-> userId, id |-> doc.id] : doc \in {x \in docs : x.token = badToken}}

\* variant: batch.delete(ref, {exists: true})
DeleteMustExist(st, ref) == \E doc \in st[ref.user] : doc.id = ref.id

\* batch.delete(doc.ref) is queued without a precondition: the commit does
\* not require the document to exist still.
DeletePrecondition(st, ref) == TRUE

\* variant: the deletes are issued one by one and only the first takes effect
ApplyBatchFirstOnly(st, refs) ==
    [u \in Users |-> {doc \in st[u] :
        \/ [user |-> u, id |-> doc.id] \notin refs
        \/ \E r \in refs : r.user = u /\ r.id < doc.id}]

\* variant: the deletes address the documents by id alone, whoever owns them
ApplyBatchAnyUser(st, refs) ==
    [u \in Users |-> {doc \in st[u] : ~\E r \in refs : r.id = doc.id}]

\* variant: the batch is never committed to the store
ApplyBatchNothing(st, refs) == st

\* batch.commit(): every queued delete is applied at once.
ApplyBatch(st, refs) ==
    [u \in Users |-> {doc \in st[u] : [user |-> u, id |-> doc.id] \notin refs}]

\* variant: the catch block re-throws
CatchRethrows == "rejected"

\* what the catch block does with an error thrown inside the try: it logs,
\* and the handler's promise resolves
CatchResult == "resolved"

NoEvent == [userId |-> "", notificationId |-> "", hasData |-> FALSE]
NoMessage == [tokens |-> <<>>]

VARIABLES
    store,           \* store[u]: documents of users/{u}/deviceTokens
    store0,          \* the store before any invocation ran
    pc,              \* pc[d]: the await the invocation d is at
    event,           \* event[d]: params and snapshot of the triggering event
    listed,          \* the deviceTokens query of d has returned
    snapshot,        \* tokensSnapshot.docs
    message,         \* the MulticastMessage built
    responses,       \* response.responses
    tokensToDelete,  \* tokensToDelete
    cursor,          \* position of the for..of loop over tokensToDelete
    batch,           \* refs queued in the write batch
    result,          \* how the handler's promise settled
    sends,           \* calls of sendEachForMulticast made by d
    commits,         \* calls of batch.commit() made by d
    failed,          \* the awaited call of d that rejected
    notifications,   \* documents of users/{u}/notifications: [userId, id, data]
    blogs,           \* blogs[b]: the document blogs/{b}, or NoDoc
    delivered,       \* ids of the notifications whose creation event was delivered
    ppc,             \* ppc[p]: the await the producer invocation p is at
    pevent,          \* pevent[p]: params and snapshot of the like or comment event
    plocal,          \* plocal[p]: authorId, blogTitle and likerName read so far
    presult,         \* how the producer's promise settled
    inbox,           \* reaction and comment documents created, event not yet delivered
    pwrites          \* pwrites[p]: ids of the notification documents p added

producerVars == <<notifications, blogs, delivered, ppc, pevent, plocal, presult, inbox, pwrites>>

vars == <<store, store0, pc, event, listed, snapshot, message, responses, tokensToDelete,
          cursor, batch, result, sends, commits, failed, producerVars>>

\* const notification = snap.data() as Notification
NotificationDoc(n) == (CHOOSE r \in notifications : r.id = n).data

\* Producer invocations (createNotificationOnNewLike / ...OnNewComment).
Producers == {"p1", "p2"}

BlogIds == {"b1"}
NoDoc == [exists |-> FALSE]
NoProducerEvent == [kind |-> "", hasData |-> FALSE]
NoLocals == [authorId |-> "", blogTitle |-> "", likerName |-> ""]

\* every invocation idle, nothing read, nothing sent
DispatchersIdle ==
    /\ pc = [d \in Dispatches |-> "idle"]
    /\ event = [d \in Dispatches |-> NoEvent]
    /\ listed = [d \in Dispatches |-> FALSE]
    /\ snapshot = [d \in Dispatches |-> <<>>]
    /\ message = [d \in Dispatches |-> NoMessage]
    /\ responses = [d \in Dispatches |-> <<>>]
    /\ tokensToDelete = [d \in Dispatches |-> <<>>]
    /\ cursor = [d \in Dispatches |-> 0]
    /\ batch = [d \in Dispatches |-> {}]
    /\ result = [d \in Dispatches |-> "pending"]
    /\ sends = [d \in Dispatches |-> 0]
    /\ commits = [d \in Dispatches |-> 0]
    /\ failed = [d \in Dispatches |-> "none"]

ProducersIdle ==
    /\ ppc = [p \in Producers |-> "idle"]
    /\ pevent = [p \in Producers |-> NoProducerEvent]
    /\ plocal = [p \in Producers |-> NoLocals]
    /\ presult = [p \in Producers |-> "pending"]
    /\ pwrites = [p \in Producers |-> {}]

\* The deviceTokens collections the enrollment flow may have left.  User
\* names are interchangeable: u1 is a user with the most registrations.
InitialStores ==
    {s \in [Users -> SUBSET AllDocs] :
        /\ Cardinality(s["u1"]) + Cardinality(s["u2"]) <= MaxRegistrations
        /\ Cardinality(s["u1"]) >= Cardinality(s["u2"])}

Init ==
    /\ store \in InitialStores
    /\ store0 = store
    /\ DispatchersIdle
    \* the notification documents the invocations are triggered for
    /\ notifications = {[userId |-> u, id |-> n, data |-> SeedNotification(n)] :
                            u \in Users, n \in NotifIds}
    /\ blogs = [b \in BlogIds |-> NoDoc]
    /\ delivered = {}
    /\ inbox = {}
    /\ ProducersIdle

\* The platform delivers a document-created event to a fresh invocation.
\* Lines 158-168: without a snapshot the handler returns at once.
\* Notification names are interchangeable: the notification d1 delivers is
\* called n1, and another invocation delivers n1 again or a different one.
Trigger(d) ==
    /\ pc[d] = "idle"
    /\ \E u \in Users, n \in (IF d = "d1" THEN {"n1"} ELSE NotifIds), hasData \in BOOLEAN :
          /\ event' = [event EXCEPT ![d] = [userId |-> u, notificationId |-> n, hasData |-> hasData]]
          /\ IF hasData
             THEN /\ pc' = [pc EXCEPT ![d] = "list"]
                  /\ UNCHANGED result
             ELSE /\ pc' = [pc EXCEPT ![d] = "done"]
                  /\ result' = [result EXCEPT ![d] = "resolved"]
    /\ UNCHANGED <<store, store0, listed, snapshot, message, responses, tokensToDelete,
                   cursor, batch, sends, commits, failed>>
    /\ UNCHANGED producerVars

\* Lines 170-199: the deviceTokens query returns; empty => return, otherwise
\* the token list and the message are built.
ListOk(d) ==
    /\ pc[d] = "list"
    /\ LET docs == SnapshotDocs(store[event[d].userId])
           tokens == TokensOf(docs)
       IN  /\ listed' = [listed EXCEPT ![d] = TRUE]
           /\ snapshot' = [snapshot EXCEPT ![d] = docs]
           /\ IF SnapshotEmpty(docs)
              THEN /\ pc' = [pc EXCEPT ![d] = "done"]
                   /\ result' = [result EXCEPT ![d] = "resolved"]
                   /\ UNCHANGED message
              ELSE /\ pc' = [pc EXCEPT ![d] = "send"]
                   /\ message' = [message EXCEPT ![d] =
                          BuildMessage(NotificationDoc(event[d].notificationId),
                                       event[d].notificationId, tokens)]
                   /\ UNCHANGED result
    /\ UNCHANGED <<store, store0, event, responses, tokensToDelete, cursor, batch,
                   sends, commits, failed>>
    /\ UNCHANGED producerVars

\* Lines 170-175: the query rejects; the await is outside the try block, so
\* the handler's promise rejects.
ListFail(d) ==
    /\ pc[d] = "list"
    /\ failed' = [failed EXCEPT ![d] = "list"]
    /\ pc' = [pc EXCEPT ![d] = "done"]
    /\ result' = [result EXCEPT ![d] = "rejected"]
    /\ UNCHANGED <<store, store0, event, listed, snapshot, message, responses, tokensToDelete,
                   cursor, batch, sends, commits>>
    /\ UNCHANGED producerVars

\* Lines 204-232: sendEachForMulticast returns one response per token; the
\* invalid tokens are collected; with none the handler returns.
SendOk(d) ==
    /\ pc[d] = "send"
    /\ \E rs \in [1..Len(message[d].tokens) -> SendResponses] :
          LET bad == CollectInvalid(rs, message[d].tokens, 1)
          IN  /\ responses' = [responses EXCEPT ![d] = rs]
              /\ tokensToDelete' = [tokensToDelete EXCEPT ![d] = bad]
              /\ sends' = [sends EXCEPT ![d] = @ + 1]
              /\ IF Len(bad) > 0
                 THEN /\ pc' = [pc EXCEPT ![d] = "lookup"]
                      /\ cursor' = [cursor EXCEPT ![d] = 1]
                      /\ UNCHANGED result
                 ELSE /\ pc' = [pc EXCEPT ![d] = "done"]
                      /\ result' = [result EXCEPT ![d] = "resolved"]
                      /\ UNCHANGED cursor
    /\ UNCHANGED <<store, store0, event, listed, snapshot, message, batch, commits, failed>>
    /\ UNCHANGED producerVars

\* variant: the cleanup runs after the catch block, with every token taken
\* as failed
SendFailThenPrune(d) ==
    /\ pc[d] = "send"
    /\ sends' = [sends EXCEPT ![d] = @ + 1]
    /\ failed' = [failed EXCEPT ![d] = "send"]
    /\ tokensToDelete' = [tokensToDelete EXCEPT ![d] = message[d].tokens]
    /\ cursor' = [cursor EXCEPT ![d] = 1]
    /\ pc' = [pc EXCEPT ![d] = "lookup"]
    /\ UNCHANGED <<store, store0, event, listed, snapshot, message, responses,
                   batch, result, commits>>
    /\ UNCHANGED producerVars

\* variant: a rejected send is tried once more
SendFailRetry(d) ==
    /\ pc[d] = "send"
    /\ sends' = [sends EXCEPT ![d] = @ + 1]
    /\ failed' = [failed EXCEPT ![d] = "send"]
    /\ IF sends[d] = 0
       THEN UNCHANGED <<pc, result>>
       ELSE /\ pc' = [pc EXCEPT ![d] = "done"]
            /\ result' = [result EXCEPT ![d] = CatchResult]
    /\ UNCHANGED <<store, store0, event, listed, snapshot, message, responses, tokensToDelete,
                   cursor, batch, commits>>
    /\ UNCHANGED producerVars

\* Lines 204, 252-254: the send rejects as a whole; the catch block logs.
SendFail(d) ==
    /\ pc[d] = "send"
    /\ sends' = [sends EXCEPT ![d] = @ + 1]
    /\ failed' = [failed EXCEPT ![d] = "send"]
    /\ pc' = [pc EXCEPT ![d] = "done"]
    /\ result' = [result EXCEPT ![d] = CatchResult]
    /\ UNCHANGED <<store, store0, event, listed, snapshot, message, responses, tokensToDelete,
                   cursor, batch, commits>>
    /\ UNCHANGED producerVars

\* Lines 235-247: one iteration of the for..of loop: the where-query for
\* badToken returns and its documents are queued for deletion.
LookupOk(d) ==
    /\ pc[d] = "lookup"
    /\ LET badToken == tokensToDelete[d][cursor[d]]
       IN  batch' = [batch EXCEPT ![d] =
                        @ \cup QueryRefs(store[event[d].userId], event[d].userId, badToken)]
    /\ IF cursor[d] < Len(tokensToDelete[d])
       THEN /\ cursor' = [cursor EXCEPT ![d] = @ + 1]
            /\ UNCHANGED pc
       ELSE /\ pc' = [pc EXCEPT ![d] = "commit"]
            /\ UNCHANGED cursor
    /\ UNCHANGED <<store, store0, event, listed, snapshot, message, responses, tokensToDelete,
                   result, sends, commits, failed>>
    /\ UNCHANGED producerVars

\* Lines 236-242, 252-254: a where-query rejects; nothing is committed.
LookupFail(d) ==
    /\ pc[d] = "lookup"
    /\ failed' = [failed EXCEPT ![d] = "lookup"]
    /\ pc' = [pc EXCEPT ![d] = "done"]
    /\ result' = [result EXCEPT ![d] = CatchResult]
    /\ UNCHANGED <<store, store0, event, listed, snapshot, message, responses, tokensToDelete,
                   cursor, batch, sends, commits>>
    /\ UNCHANGED producerVars

\* Lines 249-251: the batch commits.
CommitOk(d) ==
    /\ pc[d] = "commit"
    /\ \A ref \in batch[d] : DeletePrecondition(store, ref)
    /\ store' = ApplyBatch(store, batch[d])
    /\ commits' = [commits EXCEPT ![d] = @ + 1]
    /\ pc' = [pc EXCEPT ![d] = "done"]
    /\ result' = [result EXCEPT ![d] = "resolved"]
    /\ UNCHANGED <<store0, event, listed, snapshot, message, responses, tokensToDelete,
                   cursor, batch, sends, failed>>
    /\ UNCHANGED producerVars

\* Lines 249, 252-254: the commit rejects; a write batch applies nothing.
CommitFail(d) ==
    /\ pc[d] = "commit"
    /\ commits' = [commits EXCEPT ![d] = @ + 1]
    /\ failed' = [failed EXCEPT ![d] = "commit"]
    /\ pc' = [pc EXCEPT ![d] = "done"]
    /\ result' = [result EXCEPT ![d] = CatchResult]
    /\ UNCHANGED <<store, store0, event, listed, snapshot, message, responses, tokensToDelete,
                   cursor, batch, sends>>
    /\ UNCHANGED producerVars

\* The platform ends the invocation (timeout, cancellation) while it waits
\* for the listing or for the send: no later statement of the handler runs.
Cancel(d) ==
    /\ pc[d] \in {"list", "send"}
    /\ pc' = [pc EXCEPT ![d] = "done"]
    /\ result' = [result EXCEPT ![d] = "cancelled"]
    /\ UNCHANGED <<store, store0, event, listed, snapshot, message, responses, tokensToDelete,
                   cursor, batch, sends, commits, failed>>
    /\ UNCHANGED producerVars

Next ==
    \E d \in Dispatches :
        \/ Trigger(d)
        \/ ListOk(d)
        \/ ListFail(d)
        \/ SendOk(d)
        \/ SendFail(d)
        \/ LookupOk(d)
        \/ LookupFail(d)
        \/ CommitOk(d)
        \/ CommitFail(d)
        \/ Cancel(d)

Spec == Init /\ [][Next]_vars

\* ------------------------------------------------- the message of a record
\* The handler up to the send, run on every notification document of
\* PayloadRecords: the same document is stored under every user and id.
InitPayload ==
    /\ store \in InitialStores
    /\ store0 = store
    /\ DispatchersIdle
    /\ \E rec \in PayloadRecords :
          notifications = {[userId |-> u, id |-> n, data |-> rec] : u \in Users, n \in NotifIds}
    /\ blogs = [b \in BlogIds |-> NoDoc]
    /\ delivered = {}
    /\ inbox = {}
    /\ ProducersIdle

NextPayload ==
    \E d \in Dispatches :
        \/ Trigger(d)
        \/ ListOk(d)
        \/ SendOk(d)

SpecPayload == InitPayload /\ [][NextPayload]_vars

\* ------------------------------------------- the two notification producers
\* users/{u}: the fullName of the user document
FullNameOf(u) == IF u = "u1" THEN "Ana" ELSE "Luis"

\* rec.author?.uid, "" standing for undefined
AuthorUid(rec) ==
    IF "author" \in DOMAIN rec /\ "uid" \in DOMAIN rec.author THEN rec.author.uid ELSE ""

\* blogs/{b}: missing, or a document whose author and title may be missing
BlogDocs ==
    {NoDoc} \cup
    { [exists |-> TRUE,
       data |-> [createdAt |-> "t0"]
                  @@ OptField("author", a # "", [uid |-> a])
                  @@ OptField("title", t, "My Post")] :
      a \in {""} \cup Users, t \in BOOLEAN }

\* author field of a comment: the uid and the fullName may be missing
CommentAuthors ==
    { [createdAt |-> "t0"] @@ OptField("uid", u # "", u) @@ OptField("fullName", f, FullNameOf(u)) :
      u \in {""} \cup Users, f \in BOOLEAN }

\* blogs/{b}/comments/{c}: the author and the text may be missing
CommentDocs ==
    { [createdAt |-> "t0"] @@ OptField("text", t, "Nice") : t \in BOOLEAN }
    \cup { [createdAt |-> "t0", author |-> a] @@ OptField("text", t, "Nice") :
             a \in CommentAuthors, t \in BOOLEAN }

\* the event of a created blogs/{blogId}/reaction/{userId}
LikeEvent(b, u, hasData) ==
    [kind |-> "like", hasData |-> hasData, blogId |-> b, userId |-> u,
     comment |-> [createdAt |-> "t0"]]

\* the event of a created blogs/{blogId}/comments/{commentId}
CommentEvent(b, c, hasData) ==
    [kind |-> "comment", hasData |-> hasData, blogId |-> b, userId |-> "", comment |-> c]

LikeEvents ==
    {LikeEvent(b, u, TRUE) : b \in BlogIds, u \in Users}
    \cup {LikeEvent(b, "u1", FALSE) : b \in BlogIds}

CommentEvents ==
    {CommentEvent(b, c, TRUE) : b \in BlogIds, c \in CommentDocs}
    \cup {CommentEvent(b, [createdAt |-> "t0"], FALSE) : b \in BlogIds}

\* the auto-generated id of an added document: one not in use
NewId == CHOOSE n \in NotifIds : \A r \in notifications : r.id # n

\* variant: the self test is missing
IsSelfActionNever(authorId, actorId) == FALSE

\* authorId === likerId, authorId === commenterId
IsSelfAction(authorId, actorId) == authorId = actorId

\* variant: the document is added under the acting user
NotificationOwnerActor(authorId, actorId) == actorId

\* .collection("users").doc(authorId).collection("notifications")
NotificationOwner(authorId, actorId) == authorId

\* the document passed to add()
NewNotification(type, name, second, blogId) ==
    [type |-> type, args |-> <<name, second>>,
     targetRoute |-> "blog_post_detail/" \o blogId, targetId |-> blogId,
     timestamp |-> "serverTimestamp", status |-> "NEW"]

\* Invocations are named in the order they start.
MayStart(p) == ppc[p] = "idle" /\ (p = "p2" => ppc["p1"] # "idle")

\* the handler returns without a call failing
Return(p) ==
    /\ ppc' = [ppc EXCEPT ![p] = "done"]
    /\ presult' = [presult EXCEPT ![p] = "resolved"]

\* Lines 27-39: a reaction document was created; without a snapshot the
\* handler returns.
OnReactionCreated(p) ==
    /\ MayStart(p)
    /\ \E ev \in inbox :
          /\ ev.kind = "like"
          /\ inbox' = inbox \ {ev}
          /\ pevent' = [pevent EXCEPT ![p] = ev]
          /\ IF ev.hasData
             THEN ppc' = [ppc EXCEPT ![p] = "blog"] /\ UNCHANGED presult
             ELSE Return(p)
    /\ UNCHANGED <<notifications, blogs, delivered, plocal, pwrites>>
    /\ UNCHANGED <<store, store0, pc, event, listed, snapshot, message, responses,
                   tokensToDelete, cursor, batch, result, sends, commits, failed>>

\* Lines 41-64: the blog is read; missing blog, missing author.uid and a
\* like of the author return.
LikeBlogRead(p) ==
    /\ ppc[p] = "blog" /\ pevent[p].kind = "like"
    /\ LET blogDoc == blogs[pevent[p].blogId]
           likerId == pevent[p].userId
       IN  IF ~blogDoc.exists
           THEN Return(p) /\ UNCHANGED plocal
           ELSE LET authorId == AuthorUid(blogDoc.data)
                IN  IF authorId = "" \/ IsSelfAction(authorId, likerId)
                    THEN Return(p) /\ UNCHANGED plocal
                    ELSE /\ plocal' = [plocal EXCEPT ![p] =
                                [authorId |-> authorId,
                                 blogTitle |-> OrElse(blogDoc.data, "title", "tu publicación"),
                                 likerName |-> ""]]
                         /\ ppc' = [ppc EXCEPT ![p] = "liker"]
                         /\ UNCHANGED presult
    /\ UNCHANGED <<notifications, blogs, delivered, pevent, inbox, pwrites>>
    /\ UNCHANGED <<store, store0, pc, event, listed, snapshot, message, responses,
                   tokensToDelete, cursor, batch, result, sends, commits, failed>>

\* Lines 66-67: users/{likerId} is read; it may not exist.
LikeLikerRead(p) ==
    /\ ppc[p] = "liker"
    /\ \E likerExists \in BOOLEAN :
          plocal' = [plocal EXCEPT ![p].likerName =
                        IF likerExists THEN FullNameOf(pevent[p].userId) ELSE "Alguien"]
    /\ ppc' = [ppc EXCEPT ![p] = "add"]
    /\ UNCHANGED <<notifications, blogs, delivered, pevent, presult, inbox, pwrites>>
    /\ UNCHANGED <<store, store0, pc, event, listed, snapshot, message, responses,
                   tokensToDelete, cursor, batch, result, sends, commits, failed>>

\* Lines 71-85: the LIKE notification is added under the author.
LikeAdd(p) ==
    /\ ppc[p] = "add" /\ pevent[p].kind = "like"
    /\ \E n \in NotifIds : \A r \in notifications : r.id # n
    /\ notifications' = notifications \cup
          {[userId |-> NotificationOwner(plocal[p].authorId, pevent[p].userId),
            id |-> NewId,
            data |-> NewNotification("LIKE", plocal[p].likerName, plocal[p].blogTitle,
                                     pevent[p].blogId)]}
    /\ pwrites' = [pwrites EXCEPT ![p] = @ \cup {NewId}]
    /\ Return(p)
    /\ UNCHANGED <<blogs, delivered, pevent, plocal, inbox>>
    /\ UNCHANGED <<store, store0, pc, event, listed, snapshot, message, responses,
                   tokensToDelete, cursor, batch, result, sends, commits, failed>>

\* Lines 97-109: a comment document was created; without a snapshot or
\* without comment.author.uid the handler returns.
OnCommentCreated(p) ==
    /\ MayStart(p)
    /\ \E ev \in inbox :
          /\ ev.kind = "comment"
          /\ inbox' = inbox \ {ev}
          /\ pevent' = [pevent EXCEPT ![p] = ev]
          /\ IF ev.hasData /\ AuthorUid(ev.comment) # ""
             THEN ppc' = [ppc EXCEPT ![p] = "blog"] /\ UNCHANGED presult
             ELSE Return(p)
    /\ UNCHANGED <<notifications, blogs, delivered, plocal, pwrites>>
    /\ UNCHANGED <<store, store0, pc, event, listed, snapshot, message, responses,
                   tokensToDelete, cursor, batch, result, sends, commits, failed>>

\* Lines 111-127: the blog is read; missing blog, missing author.uid and a
\* comment of the author return.
CommentBlogRead(p) ==
    /\ ppc[p] = "blog" /\ pevent[p].kind = "comment"
    /\ LET blogDoc == blogs[pevent[p].blogId]
           commenterId == AuthorUid(pevent[p].comment)
       IN  IF ~blogDoc.exists
           THEN Return(p) /\ UNCHANGED plocal
           ELSE LET authorId == AuthorUid(blogDoc.data)
                IN  IF authorId = "" \/ IsSelfAction(authorId, commenterId)
                    THEN Return(p) /\ UNCHANGED plocal
                    ELSE /\ plocal' = [plocal EXCEPT ![p] =
                                [authorId |-> authorId, blogTitle |-> "", likerName |-> ""]]
                         /\ ppc' = [ppc EXCEPT ![p] = "add"]
                         /\ UNCHANGED presult
    /\ UNCHANGED <<notifications, blogs, delivered, pevent, inbox, pwrites>>
    /\ UNCHANGED <<store, store0, pc, event, listed, snapshot, message, responses,
                   tokensToDelete, cursor, batch, result, sends, commits, failed>>

\* Lines 127-143: the COMMENT notification is added under the author.
CommentAdd(p) ==
    /\ ppc[p] = "add" /\ pevent[p].kind = "comment"
    /\ \E n \in NotifIds : \A r \in notifications : r.id # n
    /\ LET comment == pevent[p].comment
           commenterName == OrElse(comment.author, "fullName", "Alguien")
           commentText == OrElse(comment, "text", "")
       IN  notifications' = notifications \cup
              {[userId |-> NotificationOwner(plocal[p].authorId, AuthorUid(comment)),
                id |-> NewId,
                data |-> NewNotification("COMMENT", commenterName, commentText,
                                         pevent[p].blogId)]}
    /\ pwrites' = [pwrites EXCEPT ![p] = @ \cup {NewId}]
    /\ Return(p)
    /\ UNCHANGED <<blogs, delivered, pevent, plocal, inbox>>
    /\ UNCHANGED <<store, store0, pc, event, listed, snapshot, message, responses,
                   tokensToDelete, cursor, batch, result, sends, commits, failed>>

\* Lines 41, 66, 71, 111, 129: an awaited get() or add() rejects; the await
\* is in no try block, the handler's promise rejects.
ProducerCallFails(p) ==
    /\ ppc[p] \in {"blog", "liker", "add"}
    /\ ppc' = [ppc EXCEPT ![p] = "done"]
    /\ presult' = [presult EXCEPT ![p] = "rejected"]
    /\ UNCHANGED <<notifications, blogs, delivered, pevent, plocal, inbox, pwrites>>
    /\ UNCHANGED <<store, store0, pc, event, listed, snapshot, message, responses,
                   tokensToDelete, cursor, batch, result, sends, commits, failed>>

ProducerStep(p) ==
    \/ OnReactionCreated(p)
    \/ LikeBlogRead(p)
    \/ LikeLikerRead(p)
    \/ LikeAdd(p)
    \/ OnCommentCreated(p)
    \/ CommentBlogRead(p)
    \/ CommentAdd(p)
    \/ ProducerCallFails(p)

\* One or two like and comment events on any blog, no dispatcher running.
InitProducer ==
    /\ store = [u \in Users |-> {}]
    /\ store0 = store
    /\ DispatchersIdle
    /\ notifications = {}
    /\ blogs \in [BlogIds -> BlogDocs]
    /\ delivered = {}
    /\ inbox \in {evs \in SUBSET (LikeEvents \cup CommentEvents) : Cardinality(evs) \in {1, 2}}
    /\ ProducersIdle

NextProducer == \E p \in Producers : ProducerStep(p)

SpecProducer == InitProducer /\ [][NextProducer]_vars

\* ------------------------------------------------------- the trigger chain
\* Lines 155-168: the platform delivers the creation of a notification
\* document, once, to a fresh invocation of the dispatcher.  Invocations are
\* named in the order they start.
OnNotificationCreated(d) ==
    /\ pc[d] = "idle" /\ (d = "d2" => pc["d1"] # "idle")
    /\ \E r \in notifications :
          /\ r.id \notin delivered
          /\ delivered' = delivered \cup {r.id}
          /\ event' = [event EXCEPT ![d] =
                [userId |-> r.userId, notificationId |-> r.id, hasData |-> TRUE]]
    /\ pc' = [pc EXCEPT ![d] = "list"]
    /\ UNCHANGED <<store, store0, listed, snapshot, message, responses, tokensToDelete,
                   cursor, batch, result, sends, commits, failed>>
    /\ UNCHANGED <<notifications, blogs, ppc, pevent, plocal, presult, inbox, pwrites>>

\* the blog is missing, or has the title and the author u1
CascadeBlogs ==
    {b \in BlogDocs : b.exists => (AuthorUid(b.data) = "u1" /\ "title" \in DOMAIN b.data)}

\* likes and comments that carry a snapshot and every field
CascadeEvents ==
    {ev \in LikeEvents : ev.hasData}
    \cup {ev \in CommentEvents :
            /\ ev.hasData
            /\ {"author", "text"} \subseteq DOMAIN ev.comment
            /\ {"uid", "fullName"} \subseteq DOMAIN ev.comment.author}

\* One or two likes and comments on a blog of u1, who alone may have a
\* registered device; no notification exists yet.
InitCascade ==
    /\ store \in {s \in InitialStores : s["u2"] = {} /\ Cardinality(s["u1"]) <= 1}
    /\ store0 = store
    /\ DispatchersIdle
    /\ notifications = {}
    /\ blogs \in [BlogIds -> CascadeBlogs]
    /\ delivered = {}
    /\ inbox \in {evs \in SUBSET CascadeEvents : Cardinality(evs) \in {1, 2}}
    /\ ProducersIdle

DispatcherStep(d) ==
    \/ OnNotificationCreated(d)
    \/ ListOk(d)
    \/ ListFail(d)
    \/ SendOk(d)
    \/ SendFail(d)
    \/ LookupOk(d)
    \/ LookupFail(d)
    \/ CommitOk(d)
    \/ CommitFail(d)
    \/ Cancel(d)

NextCascade ==
    \/ \E p \in Producers : ProducerStep(p)
    \/ \E d \in Dispatches : DispatcherStep(d)

\* The platform runs every invocation it started and every awaited call
\* settles: a handler that can take a step eventually takes one.
SpecCascade == InitCascade /\ [][NextCascade]_vars /\ WF_vars(NextCascade)

\* ------------------------------------------------------------------ claims
Range(s) == {s[i] : i \in DOMAIN s}
StoreTokens(u) == {doc.token : doc \in store[u]}

PermanentCodes == {"messaging/invalid-registration-token",
                   "messaging/registration-token-not-registered"}
PermanentFailure(res) ==
    ~res.success /\ "error" \in DOMAIN res /\ res.error.code \in PermanentCodes
OtherFailure(res) == ~res.success /\ ~PermanentFailure(res)

\* the send of d has returned its per-token responses
SendReturned(d) == sends[d] > 0 /\ failed[d] # "send"
\* the batch of d was committed
Applied(d) == commits[d] > 0 /\ failed[d] # "commit"
\* another invocation for the same user committed a batch that names token t
PrunedByOther(d, t) ==
    \E e \in Dispatches \ {d} :
        /\ event[e].userId = event[d].userId
        /\ Applied(e)
        /\ t \in Range(tokensToDelete[e])
Ends(d) == pc[d] # "done" /\ pc'[d] = "done"

\* C1 as stated: when a dispatch ends, every token whose response was a
\* failure without a permanent code is still in the user's store.
C1_StillStoredAtEnd ==
    [][\A d \in Dispatches :
          (Ends(d) /\ sends'[d] > 0 /\ failed'[d] # "send") =>
              \A i \in DOMAIN responses'[d] :
                  OtherFailure(responses'[d][i]) =>
                      message[d].tokens[i] \in {doc.token : doc \in store'[event[d].userId]}]_vars

\* C1 amended: a token whose response was a failure without a permanent code
\* (unknown code, or no error object) is never put in the dispatch's prune
\* set, and it stays in the user's store unless another dispatch for the
\* same user pruned it.
C1_FailOpen ==
    \A d \in Dispatches :
        SendReturned(d) =>
            \A i \in DOMAIN responses[d] :
                OtherFailure(responses[d][i]) =>
                    /\ message[d].tokens[i] \notin Range(tokensToDelete[d])
                    /\ \/ message[d].tokens[i] \in StoreTokens(event[d].userId)
                       \/ PrunedByOther(d, message[d].tokens[i])

\* a dispatch that pruned one token and left alone an unknown-code failure
\* and a failure without error object
C1_Witness ==
    \E d \in Dispatches :
        /\ pc[d] = "done" /\ Applied(d)
        /\ \E i \in DOMAIN responses[d] :
              /\ ~responses[d][i].success
              /\ ("error" \notin DOMAIN responses[d][i] \/ responses[d][i].error.code = OtherErrorCode)
              /\ message[d].tokens[i] \in StoreTokens(event[d].userId)

\* C2 as stated: after a successful prune commit the permanently failed
\* tokens are gone and every other listed token is still present.
C2_OthersStillPresent ==
    [][\A d \in Dispatches :
          (pc[d] = "commit" /\ Ends(d) /\ failed'[d] # "commit") =>
              \A i \in DOMAIN responses[d] :
                  IF PermanentFailure(responses[d][i])
                  THEN message[d].tokens[i] \notin {doc.token : doc \in store'[event[d].userId]}
                  ELSE message[d].tokens[i] \in {doc.token : doc \in store'[event[d].userId]}]_vars

\* C2 amended: once the prune commit of a dispatch succeeded, every token
\* whose positional response was a permanent failure is absent from the
\* user's store, and every other listed token is present unless another
\* dispatch for the same user pruned it.
C2_PermanentPruned ==
    \A d \in Dispatches :
        Applied(d) =>
            \A i \in DOMAIN responses[d] :
                IF PermanentFailure(responses[d][i])
                THEN message[d].tokens[i] \notin StoreTokens(event[d].userId)
                ELSE \/ message[d].tokens[i] \in StoreTokens(event[d].userId)
                     \/ PrunedByOther(d, message[d].tokens[i])

\* tokens [tA, tB], tA success, tB not registered, store afterwards [tA]
C2_Witness ==
    \E d \in Dispatches :
        /\ pc[d] = "done" /\ Applied(d)
        /\ message[d].tokens = <<"tA", "tB">>
        /\ responses[d][1].success
        /\ PermanentFailure(responses[d][2])
        /\ responses[d][2].error.code = "messaging/registration-token-not-registered"
        /\ StoreTokens(event[d].userId) = {"tA"}

\* C3: a dispatch whose listing returned no document makes no multicast
\* send, queues no delete, commits nothing and resolves normally.
C3_EmptyShortCircuit ==
    \A d \in Dispatches :
        (listed[d] /\ snapshot[d] = <<>>) =>
            /\ pc[d] = "done"
            /\ result[d] = "resolved"
            /\ sends[d] = 0
            /\ commits[d] = 0
            /\ batch[d] = {}
            /\ failed[d] = "none"

C3_Witness ==
    \E d \in Dispatches :
        /\ listed[d] /\ snapshot[d] = <<>>
        /\ store[event[d].userId] = {}
        /\ pc[d] = "done"

\* C4: the token list of the message is exactly the tokens of the documents
\* that the listing returned from the store: each once, none missing, none
\* foreign; and the send carries that list.
C4_ExactRecipients ==
    [][\A d \in Dispatches :
          /\ (pc[d] = "list" /\ pc'[d] = "send") =>
                /\ Range(message'[d].tokens) = {doc.token : doc \in store[event[d].userId]}
                /\ Len(message'[d].tokens) = Cardinality(store[event[d].userId])
                /\ Len(message'[d].tokens) = Cardinality(Range(message'[d].tokens))
          /\ (sends'[d] > sends[d]) =>
                /\ message'[d] = message[d]
                /\ Len(message[d].tokens) = Len(snapshot[d])
                /\ \A i \in DOMAIN snapshot[d] : message[d].tokens[i] = snapshot[d][i].token
                /\ failed'[d] # "send" => DOMAIN responses'[d] = DOMAIN message[d].tokens]_vars

C4_Witness ==
    \E d \in Dispatches :
        /\ sends[d] > 0
        /\ Len(message[d].tokens) = NumTokens
        /\ Range(message[d].tokens) = Tokens

\* C5 as stated: a dispatch whose listing or whose multicast send rejected
\* aborts and settles as a failure that the caller can tell from success.
C5_LoadAndSendFailuresSurface ==
    \A d \in Dispatches :
        (pc[d] = "done" /\ failed[d] \in {"list", "send"}) =>
            /\ result[d] = "rejected"
            /\ commits[d] = 0

\* C6: when the send returned and a where-query or the batch commit then
\* rejected, the handler still resolves (the error is not re-thrown), the
\* transport was called once only and the responses received stand.
C6_PruneFailureAbsorbed ==
    \A d \in Dispatches :
        failed[d] \in {"lookup", "commit"} =>
            /\ pc[d] = "done"
            /\ result[d] = "resolved"
            /\ sends[d] = 1
            /\ Len(responses[d]) = Len(message[d].tokens)
            /\ Len(tokensToDelete[d]) > 0

C6_Witness ==
    /\ \E d \in Dispatches : failed[d] = "lookup" /\ pc[d] = "done"
    /\ \E d \in Dispatches : failed[d] = "commit" /\ pc[d] = "done" /\ batch[d] # {}

\* C7: a dispatch queues or commits deletions only after its own send has
\* returned one response per token; a dispatch whose send rejected or that
\* was ended before the send completed queues and commits nothing, and every
\* change of the store is the commit of a dispatch whose send had returned.
C7_NoPruneWithoutSend ==
    [][/\ \A d \in Dispatches :
            /\ (pc'[d] \in {"lookup", "commit"} \/ batch'[d] # {} \/ commits'[d] > 0) =>
                  /\ sends'[d] = 1 /\ failed'[d] # "send"
                  /\ DOMAIN responses'[d] = DOMAIN message'[d].tokens
            /\ (failed'[d] = "send" \/ result'[d] = "cancelled") =>
                  /\ pc'[d] = "done"
                  /\ batch'[d] = {} /\ commits'[d] = 0
                  /\ (pc[d] # pc'[d] => store' = store)
       /\ store' # store =>
            \E d \in Dispatches :
                /\ pc[d] = "commit" /\ commits'[d] = commits[d] + 1
                /\ SendReturned(d)]_vars

C7_Witness ==
    /\ \E d \in Dispatches : failed[d] = "send" /\ pc[d] = "done" /\ store = store0
    /\ \E d \in Dispatches : result[d] = "cancelled" /\ message[d] # NoMessage

\* C8: every change of the store is the commit of one dispatch, and it
\* removes at once every registration of that dispatch's user whose token is
\* in the prune set and nothing else; a step in which a where-query or the
\* commit rejects changes nothing, and a dispatch commits at most once.
C8_AtomicPrune ==
    [][/\ store' # store =>
            \E d \in Dispatches :
                /\ pc[d] = "commit" /\ pc'[d] = "done" /\ failed'[d] = "none"
                /\ store' = [u \in Users |->
                                IF u = event[d].userId
                                THEN {doc \in store[u] : doc.token \notin Range(tokensToDelete[d])}
                                ELSE store[u]]
       /\ \A d \in Dispatches :
            /\ commits'[d] <= 1
            /\ (failed'[d] \in {"lookup", "commit"} /\ failed[d] = "none") => store' = store]_vars

\* a commit that removed two registrations in one step
C8_Witness ==
    \E d \in Dispatches :
        /\ Applied(d) /\ pc[d] = "done"
        /\ Len(tokensToDelete[d]) >= 2
        /\ Cardinality(batch[d]) >= 2
        /\ StoreTokens(event[d].userId) \cap Range(tokensToDelete[d]) = {}

\* tokens named by the committed batches of the dispatches for user u
UnionPruned(u) ==
    UNION {Range(tokensToDelete[d]) : d \in {e \in Dispatches : event[e].userId = u /\ Applied(e)}}

\* C9: a batch can always commit, also when another dispatch has already
\* deleted a document it names, and the store is always the initial store
\* without the tokens of the prune sets committed so far: with both
\* dispatches finished, the initial set minus the union of their prune sets.
C9_ConcurrentPrunes ==
    /\ \A d \in Dispatches : pc[d] = "commit" => ENABLED CommitOk(d)
    /\ \A u \in Users : store[u] = {doc \in store0[u] : doc.token \notin UnionPruned(u)}

\* two finished dispatches for one user with overlapping, different prune sets
C9_Witness ==
    \E d, e \in Dispatches :
        /\ d # e /\ event[d].userId = event[e].userId
        /\ pc[d] = "done" /\ pc[e] = "done"
        /\ Applied(d) /\ Applied(e)
        /\ batch[d] \cap batch[e] # {}
        /\ Range(tokensToDelete[d]) # Range(tokensToDelete[e])
        /\ StoreTokens(event[d].userId) \cap (Range(tokensToDelete[d]) \cup Range(tokensToDelete[e])) = {}

SameEvent(d, e) ==
    /\ d # e
    /\ event[d].hasData /\ event[e].hasData
    /\ event[d].userId = event[e].userId
    /\ event[d].notificationId = event[e].notificationId

\* C10 as stated: a delivery of an event never sends to a token that an
\* earlier send for the same event already reached successfully.
C10_NoSecondSend ==
    [][\A e \in Dispatches :
          sends'[e] > sends[e] =>
              \A d \in Dispatches :
                  (SameEvent(d, e) /\ SendReturned(d)) =>
                      \A i \in DOMAIN responses[d] :
                          responses[d][i].success =>
                              message[d].tokens[i] \notin Range(message[e].tokens)]_vars

\* C10 amended: a repeated delivery of an event sends again, to exactly the
\* tokens registered when it lists and with the same data payload and
\* notificationId as the earlier delivery; the one effect it does not repeat
\* is the pruning: a token that a committed prune of an earlier delivery
\* named is not in its token list.
C10_RedeliveryResends ==
    [][\A e \in Dispatches :
          (pc[e] = "list" /\ pc'[e] = "send") =>
              /\ Range(message'[e].tokens) = {doc.token : doc \in store[event[e].userId]}
              /\ message'[e].data.notificationId = event[e].notificationId
              /\ \A d \in Dispatches :
                    SameEvent(d, e) =>
                        /\ message[d] # NoMessage =>
                              /\ message'[e].data = message[d].data
                              /\ message'[e].notification = message[d].notification
                        /\ Applied(d) =>
                              Range(message'[e].tokens) \cap Range(tokensToDelete[d]) = {}]_vars

\* a second delivery that sent again to a token the first had reached, and
\* not to the token the first had pruned
C10_Witness ==
    \E d, e \in Dispatches :
        /\ SameEvent(d, e)
        /\ Applied(d) /\ SendReturned(e)
        /\ Len(message[d].tokens) = 2 /\ Len(message[e].tokens) = 1
        /\ \E i \in DOMAIN responses[d] :
              /\ responses[d][i].success
              /\ message[d].tokens[i] \in Range(message[e].tokens)
        /\ Range(message[e].tokens) \cap Range(tokensToDelete[d]) = {}

\* C11: no step of the dispatcher creates or changes a registration or a
\* notification document; the only change of the data store is the removal
\* of registrations of the committing dispatch's user whose token that
\* dispatch's send reported with a permanent error, and every notification
\* keeps status NEW.
C11_SoleMutation ==
    [][/\ notifications' = notifications
       /\ blogs' = blogs
       /\ \A r \in notifications' : r.data.status = "NEW"
       /\ \A u \in Users : store'[u] \subseteq store[u]
       /\ store' # store =>
            \E d \in Dispatches :
                /\ commits'[d] = commits[d] + 1
                /\ \A u \in Users : \A doc \in store[u] \ store'[u] :
                      /\ u = event[d].userId
                      /\ \E i \in DOMAIN responses[d] :
                            /\ PermanentFailure(responses[d][i])
                            /\ message[d].tokens[i] = doc.token]_vars

\* a dispatch removed one of two registrations and wrote nothing else
C11_Witness ==
    \E d \in Dispatches :
        /\ Applied(d) /\ pc[d] = "done"
        /\ Cardinality(store0[event[d].userId]) = 2
        /\ Cardinality(store[event[d].userId]) = 1
        /\ \A r \in notifications : r.data.status = "NEW"

\* C12: when a dispatch has committed a prune set, a second prune of the
\* same user with the same token set can commit, its commit changes
\* nothing, and afterwards the store is what one application left.
C12_IdempotentPrune ==
    \A d, e \in Dispatches :
        (/\ d # e /\ event[d].userId = event[e].userId
         /\ Applied(d) /\ pc[d] = "done"
         /\ Len(tokensToDelete[e]) > 0
         /\ Range(tokensToDelete[d]) = Range(tokensToDelete[e])) =>
            /\ pc[e] = "commit" =>
                  /\ ENABLED CommitOk(e)
                  /\ ApplyBatch(store, batch[e]) = store
            /\ Applied(e) =>
                  store[event[d].userId] =
                      {doc \in store0[event[d].userId] : doc.token \notin Range(tokensToDelete[d])}

\* the second of two prunes of the same tokens, committed after the first
\* had deleted the documents it had queued
C12_Witness ==
    \E d, e \in Dispatches :
        /\ d # e /\ event[d].userId = event[e].userId
        /\ Applied(d) /\ Applied(e) /\ pc[d] = "done" /\ pc[e] = "done"
        /\ Range(tokensToDelete[d]) = Range(tokensToDelete[e])
        /\ batch[e] # {} /\ batch[d] = batch[e]

\* C16: within one invocation the listing precedes the send and the send
\* precedes every where-query and the commit; the transport is called at
\* most once and at most one batch is committed; after a rejected call the
\* invocation is over and calls neither the transport nor the store again.
C16_SingleSendSinglePrune ==
    [][\A d \in Dispatches :
          /\ sends'[d] <= 1 /\ commits'[d] <= 1
          /\ sends'[d] > 0 => listed'[d]
          /\ (pc'[d] \in {"lookup", "commit"} \/ commits'[d] > 0) => sends'[d] = 1
          /\ commits'[d] > 0 => cursor'[d] = Len(tokensToDelete'[d])
          /\ failed'[d] # "none" => pc'[d] = "done"
          /\ pc[d] = "done" =>
                /\ pc'[d] = "done"
                /\ sends'[d] = sends[d] /\ commits'[d] = commits[d]
                /\ batch'[d] = batch[d] /\ cursor'[d] = cursor[d]
                /\ listed'[d] = listed[d]]_vars

\* one invocation whose send rejected and one whose commit rejected
C16_Witness ==
    /\ \E d \in Dispatches : failed[d] = "send" /\ sends[d] = 1 /\ commits[d] = 0
    /\ \E d \in Dispatches : failed[d] = "commit" /\ sends[d] = 1 /\ commits[d] = 1

\* C17: the responses of a send fall into delivered, permanently failed and
\* otherwise failed; successCount, the size of the prune set and the
\* remaining failures add up to the number of tokens, the prune set holds
\* exactly the permanently failed tokens, and no otherwise failed token.
C17_OutcomePartition ==
    \A d \in Dispatches :
        SendReturned(d) =>
            LET rs == responses[d]
                tokens == message[d].tokens
                permanent == {i \in DOMAIN rs : PermanentFailure(rs[i])}
                transient == {i \in DOMAIN rs : OtherFailure(rs[i])}
                sent == successCount(rs)
                pruned == Len(tokensToDelete[d])
                transientFailures == failureCount(rs) - pruned
            IN  /\ sent + transientFailures + pruned = Len(tokens)
                /\ pruned = Cardinality(permanent)
                /\ transientFailures = Cardinality(transient)
                /\ Range(tokensToDelete[d]) = {tokens[i] : i \in permanent}
                /\ \A i \in transient : tokens[i] \notin Range(tokensToDelete[d])

\* tA delivered, tB failed with a generic error: 1 sent, 1 transient, none
\* pruned, store unchanged
C17_Witness ==
    \E d \in Dispatches :
        /\ pc[d] = "done" /\ SendReturned(d)
        /\ message[d].tokens = <<"tA", "tB">>
        /\ responses[d][1].success
        /\ responses[d][2] = [success |-> FALSE, error |-> [code |-> "messaging/internal-error"]]
        /\ successCount(responses[d]) = 1
        /\ failureCount(responses[d]) - Len(tokensToDelete[d]) = 1
        /\ tokensToDelete[d] = <<>>
        /\ StoreTokens(event[d].userId) = {"tA", "tB"}
        /\ store = store0

\* C19: a dispatch lists and queues only documents under its own user's
\* deviceTokens, and its commit leaves every other user's registrations as
\* they were, also one holding the same token string.
C19_PerUserIsolation ==
    [][\A d \in Dispatches :
          /\ \A i \in DOMAIN snapshot'[d] : snapshot'[d][i] \in store0[event'[d].userId]
          /\ (pc[d] = "list" /\ listed'[d]) =>
                Range(snapshot'[d]) = store[event[d].userId]
          /\ \A ref \in batch'[d] : ref.user = event'[d].userId
          /\ commits'[d] = commits[d] + 1 =>
                \A v \in Users \ {event[d].userId} : store'[v] = store[v]]_vars

\* tA is registered under both users; the dispatch for one pruned it, the
\* other user still has it
C19_Witness ==
    \E d \in Dispatches : \E v \in Users :
        /\ v # event[d].userId
        /\ Applied(d) /\ pc[d] = "done"
        /\ "tA" \in Range(tokensToDelete[d])
        /\ "tA" \notin StoreTokens(event[d].userId)
        /\ "tA" \in StoreTokens(v)

\* the notification document the send of d was built from
RecordOf(d) == NotificationDoc(event[d].notificationId)

\* d has called sendEachForMulticast with message[d]
Sent(d) == sends[d] > 0 /\ message[d] # NoMessage

ArgKeys == <<"arg0", "arg1">>

\* C13: the data payload of every multicast send has the key type, holding
\* the record's type or "UNKNOWN" when the record has none, the keys
\* targetRoute and targetId, holding the record's field or "", and
\* notificationId, holding the record id.
C13_PayloadTypeKey ==
    \A d \in Dispatches :
        Sent(d) =>
            LET data == message[d].data
                rec == RecordOf(d)
            IN  /\ {"type", "targetRoute", "targetId", "notificationId"} \subseteq DOMAIN data
                /\ data.type = (IF "type" \in DOMAIN rec THEN rec.type ELSE "UNKNOWN")
                /\ data.targetRoute = (IF "targetRoute" \in DOMAIN rec THEN rec.targetRoute ELSE "")
                /\ data.targetId = (IF "targetId" \in DOMAIN rec THEN rec.targetId ELSE "")
                /\ data.notificationId = event[d].notificationId

\* C14: for a record with n args the data payload of the send holds arg0
\* .. arg(n-1), arg{i} being the i-th element, no further arg key and no
\* key args.
C14_PayloadPositionalArgs ==
    \A d \in Dispatches :
        Sent(d) =>
            LET data == message[d].data
                rec == RecordOf(d)
                args == IF "args" \in DOMAIN rec THEN rec.args ELSE <<>>
            IN  /\ \A i \in 1..Len(ArgKeys) :
                      IF i <= Len(args)
                      THEN ArgKeys[i] \in DOMAIN data /\ data[ArgKeys[i]] = args[i]
                      ELSE ArgKeys[i] \notin DOMAIN data
                /\ "args" \notin DOMAIN data

DefaultTitle == "Tienes una nueva notificación"

\* C15: the data payload and the title/body pair of a send depend on the
\* notification record alone: two sends for the same record carry the same
\* data and the same title and body whatever their token lists; and the
\* pair is defined for every record: the default title and the empty body
\* for a missing or unknown type, "Alguien" and "" for missing args.
C15_PayloadDeterminism ==
    /\ \A d, e \in Dispatches :
          (/\ message[d] # NoMessage /\ message[e] # NoMessage
           /\ event[d].notificationId = event[e].notificationId) =>
              /\ message[d].data = message[e].data
              /\ message[d].notification = message[e].notification
    /\ \A d \in Dispatches :
          message[d] # NoMessage =>
              LET rec == RecordOf(d)
                  note == message[d].notification
                  args == IF "args" \in DOMAIN rec THEN rec.args ELSE <<>>
                  first == IF Len(args) >= 1 THEN args[1] ELSE "Alguien"
                  second == IF Len(args) >= 2 THEN args[2] ELSE ""
              IN  /\ DOMAIN note = {"title", "body"}
                  /\ ("type" \notin DOMAIN rec \/ rec.type \notin {"LIKE", "COMMENT"}) =>
                        note.title = DefaultTitle /\ note.body = ""
                  /\ ("type" \in DOMAIN rec /\ rec.type = "LIKE") =>
                        /\ note.title = first \o " le dio like a tu publicación"
                        /\ note.body = "Publicación: " \o second
                  /\ ("type" \in DOMAIN rec /\ rec.type = "COMMENT") =>
                        /\ note.title = first \o " comentó en tu publicación"
                        /\ note.body = second

\* two sends of a LIKE record without args to different token lists
C15_Witness ==
    \E d, e \in Dispatches :
        /\ d # e /\ Sent(d) /\ Sent(e)
        /\ event[d].notificationId = event[e].notificationId
        /\ message[d].tokens # message[e].tokens
        /\ "args" \notin DOMAIN RecordOf(d)
        /\ message[d].notification.title = "Alguien le dio like a tu publicación"
        /\ message[e].notification.body = "Publicación: "

\* the acting user of the event p handles: the liker, or the comment's
\* author uid ("" when the comment has none)
ActorOf(p) ==
    IF pevent[p].kind = "like" THEN pevent[p].userId ELSE AuthorUid(pevent[p].comment)

\* author uid of the blog the event of p is about ("" when there is none)
BlogAuthorOf(p) ==
    IF blogs[pevent[p].blogId].exists THEN AuthorUid(blogs[pevent[p].blogId].data) ELSE ""

\* the blog exists, has an author uid, and the author is not the actor
BlogQualifies(p) == BlogAuthorOf(p) # "" /\ BlogAuthorOf(p) # ActorOf(p)

\* the notification documents p added
WrittenBy(p) == {r \in notifications : r.id \in pwrites[p]}

\* one document, under the blog author, NEW, typed after the event
WroteOneForAuthor(p) ==
    /\ Cardinality(pwrites[p]) = 1 /\ Cardinality(WrittenBy(p)) = 1
    /\ \A r \in WrittenBy(p) :
          /\ r.userId = BlogAuthorOf(p)
          /\ r.data.status = "NEW"
          /\ r.data.type = (IF pevent[p].kind = "like" THEN "LIKE" ELSE "COMMENT")

\* C18 (as stated): a like or comment event whose handler's calls all
\* returned writes a record iff the blog exists, has an author uid and the
\* author differs from the actor; then exactly one, under the author, NEW,
\* LIKE or COMMENT; otherwise none, and the handler resolves.
C18_ProducerGuards ==
    \A p \in Producers :
        (ppc[p] = "done" /\ pevent[p].hasData /\ presult[p] # "rejected") =>
            /\ BlogQualifies(p) <=> pwrites[p] # {}
            /\ BlogQualifies(p) => WroteOneForAuthor(p)
            /\ ~BlogQualifies(p) => presult[p] = "resolved"

\* the event carries a snapshot and, for a comment, an author uid
EventUsable(p) ==
    /\ pevent[p].hasData
    /\ pevent[p].kind = "comment" => AuthorUid(pevent[p].comment) # ""

\* C18 (amended): a handler whose calls all returned writes a record iff
\* the event carries a snapshot, a comment has an author uid, the blog
\* exists, has an author uid and the author differs from the actor; then
\* exactly one, under the author, NEW, LIKE or COMMENT.  In every other case
\* nothing is written.  An event without a snapshot and a comment without
\* an author uid make the handler resolve; a handler with a rejected call
\* has written nothing; nothing is written before the handler ends.
C18_ProducerGuardsAmended ==
    \A p \in Producers :
        /\ ppc[p] # "done" => pwrites[p] = {} /\ presult[p] = "pending"
        /\ ppc[p] = "done" =>
              LET q == EventUsable(p) /\ BlogQualifies(p)
              IN  /\ presult[p] \in {"resolved", "rejected"}
                  /\ presult[p] = "resolved" => (q <=> pwrites[p] # {})
                  /\ pwrites[p] # {} => WroteOneForAuthor(p) /\ presult[p] = "resolved"
                  /\ ~q => pwrites[p] = {}
                  /\ ~EventUsable(p) => presult[p] = "resolved"
                  /\ presult[p] = "rejected" => pwrites[p] = {}

\* one handler wrote a LIKE for the author, another skipped a comment that
\* has no author uid although the blog has an author
C18_Witness ==
    \E p, q \in Producers :
        /\ ppc[p] = "done" /\ ppc[q] = "done"
        /\ pevent[p].kind = "like" /\ WroteOneForAuthor(p)
        /\ pevent[q].kind = "comment" /\ pevent[q].hasData
        /\ AuthorUid(pevent[q].comment) = "" /\ BlogQualifies(q)
        /\ pwrites[q] = {} /\ presult[q] = "resolved"

\* p has read nothing yet of a usable like or comment by a non-author on an
\* existing blog whose author has a registered token
LikedByOther(p) ==
    /\ ppc[p] = "blog" /\ EventUsable(p) /\ BlogQualifies(p)
    /\ store[BlogAuthorOf(p)] # {}

\* the invocations delivering a notification p wrote
DispatchesFor(p) ==
    {d \in Dispatches : pc[d] # "idle" /\ event[d].notificationId \in pwrites[p]}

\* a multicast was sent for p's notification to the author's listed tokens
SentFor(p) ==
    \E d \in DispatchesFor(p) :
        /\ Sent(d)
        /\ event[d].userId = BlogAuthorOf(p)
        /\ message[d].tokens = TokensOf(snapshot[d])

\* a call of p or of the dispatch of p's notification rejected, or the
\* dispatch was cancelled
FailedFor(p) ==
    \/ presult[p] = "rejected"
    \/ \E d \in DispatchesFor(p) : failed[d] # "none" \/ result[d] = "cancelled"

\* the dispatch of p's notification found no registration left after
\* another dispatch for the author had committed a prune
PrunedBefore(p) ==
    \E d \in DispatchesFor(p) :
        /\ listed[d] /\ snapshot[d] = <<>>
        /\ \E e \in Dispatches \ {d} : Applied(e) /\ event[e].userId = event[d].userId

\* only a producer's add creates a notification, no step creates a
\* reaction or comment event, an event causes at most one notification and
\* a notification at most one send
CascadeBounded ==
    /\ \A p \in Producers : Cardinality(pwrites[p]) <= 1
    /\ Cardinality(notifications) <= Cardinality({p \in Producers : ppc[p] = "done"})
    /\ \A d \in Dispatches :
          /\ sends[d] <= 1
          /\ pc[d] # "idle" => \E r \in notifications : r.id = event[d].notificationId
    /\ \A d, e \in Dispatches :
          (d # e /\ pc[d] # "idle" /\ pc[e] # "idle") =>
              event[d].notificationId # event[e].notificationId

CascadeStep ==
    /\ inbox' \subseteq inbox
    /\ notifications \subseteq notifications'
    /\ notifications' # notifications =>
          /\ \E p \in Producers : ppc[p] = "add" /\ ppc'[p] = "done" /\ pwrites'[p] # pwrites[p]
          /\ UNCHANGED <<pc, event, store, sends, commits>>

\* C20 (as stated, eventual dispatch): unless one of its calls fails, a like
\* or comment by a non-author on an existing blog whose author has a
\* registered token is eventually followed by a multicast send to the
\* author's tokens.
C20_EventualSend ==
    \A p \in Producers : LikedByOther(p) ~> (SentFor(p) \/ FailedFor(p))

\* C20 (amended): the dispatcher creates no notification, reaction or
\* comment; an event delivered once causes at most one notification and at
\* most one multicast send; and, unless one of its calls fails, a like or
\* comment by a non-author on an existing blog whose author has a registered
\* token is eventually followed by a multicast send to the tokens the
\* dispatch listed for the author, or by a dispatch that lists none because
\* an earlier dispatch for the author pruned them.
C20_BoundedCascade ==
    /\ []CascadeBounded
    /\ [][CascadeStep]_vars
    /\ \A p \in Producers :
          LikedByOther(p) ~> (SentFor(p) \/ FailedFor(p) \/ PrunedBefore(p))

\* a like and a comment by u2 on u1's blog, each followed by one send
C20_Witness ==
    /\ \A p \in Producers : ppc[p] = "done" /\ BlogQualifies(p) /\ SentFor(p)
    /\ Cardinality(notifications) = 2
    /\ \A d \in Dispatches : pc[d] = "done" /\ sends[d] = 1

TypeOK ==
    /\ store \in [Users -> SUBSET AllDocs]
    /\ pc \in [Dispatches -> {"idle", "list", "send", "lookup", "commit", "done"}]
    /\ result \in [Dispatches -> {"pending", "resolved", "rejected", "cancelled"}]
====
